---- MODULE Spec2Model ----
(***************************************************************************)
(* Model of backend/server.py: the questionnaire scoring pipeline          *)
(* (calculate_profile_axes, determine_archetype, generate_plan_template)   *)
(* and the request handlers that store and look up profiles and plans.     *)
(*                                                                         *)
(* Text is kept as TLA+ strings; lower, strip, split and the substring     *)
(* test are computed character by character.  Scores are rationals with    *)
(* denominators 2 (duration / 2) and 7 (average over the week), kept as    *)
(* integers in units of 1/Scale; the float arithmetic of the source is     *)
(* modelled as exact.                                                      *)
(***************************************************************************)
EXTENDS Integers, Sequences, FiniteSets, TLC

VARIABLES user_profiles, user_plans, response, uuids, clock, fn_arg, fn_ret, pc

vars == <<user_profiles, user_plans, response, uuids, clock, fn_arg, fn_ret, pc>>

(***************************************************************************)
(* Bounds of the model.                                                    *)
(***************************************************************************)
MaxHours == 8
MaxDistractions == 12
MaxProfiles == 2
MaxPlans == 2

(***************************************************************************)
(* Arithmetic.                                                             *)
(***************************************************************************)
Scale == 2 * 7

S(n) == n * Scale

Min(a, b) == IF a <= b THEN a ELSE b

Max(a, b) == IF a >= b THEN a ELSE b

(***************************************************************************)
(* Python str operations.                                                  *)
(***************************************************************************)
UpperCase == "ABCDEFGHIJKLMNOPQRSTUVWXYZ"

LowerCase == "abcdefghijklmnopqrstuvwxyz"

CharAt(s, i) == SubSeq(s, i, i)

IsSpace(c) == c \in {" ", "\t", "\n"}

LowerChar(c) ==
  IF \E i \in 1..Len(UpperCase) : CharAt(UpperCase, i) = c
  THEN CharAt(LowerCase, CHOOSE i \in 1..Len(UpperCase) : CharAt(UpperCase, i) = c)
  ELSE c

RECURSIVE lower(_)
lower(s) ==
  IF Len(s) = 0 THEN ""
  ELSE IF Len(s) = 1 THEN LowerChar(s)
  ELSE LET half == Len(s) \div 2
       IN lower(SubSeq(s, 1, half)) \o lower(SubSeq(s, half + 1, Len(s)))

\* sub in text
contains(text, sub) ==
  \E i \in 1..(Len(text) - Len(sub) + 1) : SubSeq(text, i, i + Len(sub) - 1) = sub

strip(s) ==
  LET nonspace == {i \in 1..Len(s) : ~IsSpace(CharAt(s, i))}
  IN IF nonspace = {} THEN ""
     ELSE LET first == CHOOSE i \in nonspace : \A j \in nonspace : i <= j
              last == CHOOSE i \in nonspace : \A j \in nonspace : i >= j
          IN SubSeq(s, first, last)

\* s.split(): the maximal runs of non-whitespace characters, in order
RECURSIVE split(_)
split(s) ==
  LET t == strip(s)
  IN IF Len(t) = 0 THEN <<>>
     ELSE LET spaces == {i \in 1..Len(t) : IsSpace(CharAt(t, i))}
              stop == IF spaces = {} THEN Len(t) + 1
                      ELSE CHOOSE i \in spaces : \A j \in spaces : i <= j
          IN <<SubSeq(t, 1, stop - 1)>> \o split(SubSeq(t, stop, Len(t)))

RECURSIVE join(_, _)
join(sep, list) ==
  IF Len(list) = 0 THEN ""
  ELSE IF Len(list) = 1 THEN list[1]
  ELSE list[1] \o sep \o join(sep, Tail(list))

Digit(d) == CharAt("0123456789", d + 1)

RECURSIVE str(_)
str(n) == IF n < 10 THEN Digit(n) ELSE str(n \div 10) \o Digit(n % 10)

\* f"{x:.0f}" of the score x / Scale, x >= 0: nearest integer, ties to even
format_0f(x) ==
  LET whole == x \div Scale
      rest == x % Scale
      rounded == IF 2 * rest > Scale THEN whole + 1
                 ELSE IF 2 * rest < Scale THEN whole
                 ELSE IF whole % 2 = 0 THEN whole ELSE whole + 1
  IN str(rounded)

(***************************************************************************)
(* Enums.                                                                  *)
(***************************************************************************)
ChronotypeChoice == {"Early morning", "Late morning", "Afternoon", "Evening", "Night"}

SetbackReaction ==
  {"give up", "try again same way", "adjust approach and try again",
   "learn and iterate immediately"}

HabitCount == {"0", "1-2", "3-4", "5+"}

PURPOSE_DRIVEN_HIGH_ENERGY == "Purpose-driven + High Energy + High Focus"

EXPLORATORY_MODERATE == "Exploratory + Moderate Energy + Moderate Habit"

LOW_ENERGY_WANTS_CHANGE == "Low Energy / Low Habit + Wants Change"

Archetype == {PURPOSE_DRIVEN_HIGH_ENERGY, EXPLORATORY_MODERATE, LOW_ENERGY_WANTS_CHANGE}

\* Optional[int]: <<>> is None, <<d>> is the integer d
None == <<>>

(***************************************************************************)
(* calculate_profile_axes: one operator per axis, each score in units of   *)
(* 1/Scale.                                                                *)
(***************************************************************************)
purpose_keywords ==
  <<"create", "build", "help", "solve", "improve", "teach", "mentor", "impact">>

focus_keywords ==
  <<"coding", "design", "writing", "research", "analysis", "problem", "create">>

\* sum(n for keyword in keywords if keyword in text)
keyword_sum(n, keywords, text) ==
  n * Cardinality({i \in 1..Len(keywords) : contains(text, keywords[i])})

outcomes_of(questionnaire) ==
  <<questionnaire.outcome_1, questionnaire.outcome_2, questionnaire.outcome_3>>


\* variant: every occurrence of a keyword adds 20
purpose_clarity_per_occurrence(questionnaire) ==
  LET q2_lower == lower(questionnaire.passionate_problems)
      outcomes == outcomes_of(questionnaire)
      specific_outcomes == Cardinality({i \in 1..3 : Len(split(outcomes[i])) > 3})
      occurrences(keyword) ==
        Cardinality({i \in 1..(Len(q2_lower) - Len(keyword) + 1) :
                       SubSeq(q2_lower, i, i + Len(keyword) - 1) = keyword})
      keyword_score[k \in 0..Len(purpose_keywords)] ==
        IF k = 0 THEN 0 ELSE keyword_score[k - 1] + 20 * occurrences(purpose_keywords[k])
      purpose_score == keyword_score[Len(purpose_keywords)] + specific_outcomes * 15
  IN Min(S(100), Max(0, S(purpose_score)))

purpose_clarity_of(questionnaire) ==
  LET q2_lower == lower(questionnaire.passionate_problems)
      outcomes == outcomes_of(questionnaire)
      specific_outcomes == Cardinality({i \in 1..3 : Len(split(outcomes[i])) > 3})
      purpose_score == keyword_sum(20, purpose_keywords, q2_lower) + specific_outcomes * 15
  IN Min(S(100), Max(0, S(purpose_score)))

chronotype_scores(chronotype) ==
  CASE chronotype = "Early morning" -> 90
    [] chronotype = "Late morning" -> 70
    [] chronotype = "Afternoon" -> 60
    [] chronotype = "Evening" -> 50
    [] chronotype = "Night" -> 30

\* (weekday_hours * 5 + weekend_hours * 2) / 7
avg_hours_of(questionnaire) ==
  ((questionnaire.weekday_hours * 5 + questionnaire.weekend_hours * 2) * Scale) \div 7

\* truthiness of morning_routine.strip() and morning_routine_duration
has_routine(questionnaire) ==
  /\ Len(strip(questionnaire.morning_routine)) > 0
  /\ questionnaire.morning_routine_duration # None
  /\ questionnaire.morning_routine_duration[1] # 0


\* variant: the routine text is not stripped before its truth test
energy_chronotype_unstripped(questionnaire) ==
  LET base == S(chronotype_scores(questionnaire.chronotype))
      energy_score ==
        IF /\ Len(questionnaire.morning_routine) > 0
           /\ questionnaire.morning_routine_duration # None
           /\ questionnaire.morning_routine_duration[1] # 0
        THEN base + Min(S(20), (questionnaire.morning_routine_duration[1] * Scale) \div 2)
        ELSE base
      avg_hours == avg_hours_of(questionnaire)
      time_score == Min(S(30), avg_hours * 5)
  IN Min(S(100), energy_score + time_score)

energy_chronotype_of(questionnaire) ==
  LET base == S(chronotype_scores(questionnaire.chronotype))
      energy_score ==
        IF has_routine(questionnaire)
        THEN base + Min(S(20), (questionnaire.morning_routine_duration[1] * Scale) \div 2)
        ELSE base
      avg_hours == avg_hours_of(questionnaire)
      time_score == Min(S(30), avg_hours * 5)
  IN Min(S(100), energy_score + time_score)


\* variant: no floor at 0
focus_capacity_unfloored(questionnaire) ==
  LET q1_lower == lower(questionnaire.energizing_activities)
      focus_base == S(keyword_sum(15, focus_keywords, q1_lower))
      hours_factor == Min(S(40), avg_hours_of(questionnaire) * 8)
      distraction_penalty == S(Len(questionnaire.distractions) * 5)
  IN Min(S(100), focus_base + hours_factor - distraction_penalty)


\* variant: the distraction penalty is capped at 25
focus_capacity_capped_penalty(questionnaire) ==
  LET q1_lower == lower(questionnaire.energizing_activities)
      focus_base == S(keyword_sum(15, focus_keywords, q1_lower))
      hours_factor == Min(S(40), avg_hours_of(questionnaire) * 8)
      distraction_penalty == Min(S(25), S(Len(questionnaire.distractions) * 5))
  IN Min(S(100), Max(0, focus_base + hours_factor - distraction_penalty))

focus_capacity_of(questionnaire) ==
  LET q1_lower == lower(questionnaire.energizing_activities)
      focus_base == S(keyword_sum(15, focus_keywords, q1_lower))
      hours_factor == Min(S(40), avg_hours_of(questionnaire) * 8)
      distraction_penalty == S(Len(questionnaire.distractions) * 5)
  IN Min(S(100), Max(0, focus_base + hours_factor - distraction_penalty))

habit_scores(habit_count) ==
  CASE habit_count = "0" -> 10
    [] habit_count = "1-2" -> 35
    [] habit_count = "3-4" -> 65
    [] habit_count = "5+" -> 90

habit_foundation_of(questionnaire) ==
  LET habit_base ==
        IF Len(strip(questionnaire.key_habit_change)) > 10
        THEN habit_scores(questionnaire.habit_count) + 15
        ELSE habit_scores(questionnaire.habit_count)
  IN S(Min(100, habit_base))

setback_scores(setback_reaction) ==
  CASE setback_reaction = "give up" -> 20
    [] setback_reaction = "try again same way" -> 40
    [] setback_reaction = "adjust approach and try again" -> 75
    [] setback_reaction = "learn and iterate immediately" -> 95

mindset_of(questionnaire) ==
  LET mindset_base == setback_scores(questionnaire.setback_reaction)
      commitment_bonus == questionnaire.commitment_level * 5
  IN S(Min(100, mindset_base + commitment_bonus))


\* variant: every matching word of a skill adds 15
skill_fit_per_word(questionnaire) ==
  LET skill_count == Len(questionnaire.skills)
      skill_base == Min(60, skill_count * 20)
      outcomes_text == lower(join(" ", outcomes_of(questionnaire)))
      matches(skill) ==
        LET words == split(lower(skill))
        IN Cardinality({w \in 1..Len(words) : contains(outcomes_text, words[w])})
      skill_alignment[i \in 0..skill_count] ==
        IF i = 0 THEN 0
        ELSE skill_alignment[i - 1] + 15 * matches(questionnaire.skills[i])
  IN S(Min(100, skill_base + skill_alignment[skill_count]))

skill_fit_of(questionnaire) ==
  LET skill_count == Len(questionnaire.skills)
      skill_base == Min(60, skill_count * 20)
      outcomes_text == lower(join(" ", outcomes_of(questionnaire)))
      aligned(skill) ==
        LET words == split(lower(skill))
        IN \E w \in 1..Len(words) : contains(outcomes_text, words[w])
      skill_alignment ==
        15 * Cardinality({i \in 1..skill_count : aligned(questionnaire.skills[i])})
  IN S(Min(100, skill_base + skill_alignment))

calculate_profile_axes(questionnaire) ==
  [purpose_clarity |-> purpose_clarity_of(questionnaire),
   energy_chronotype |-> energy_chronotype_of(questionnaire),
   focus_capacity |-> focus_capacity_of(questionnaire),
   habit_foundation |-> habit_foundation_of(questionnaire),
   mindset |-> mindset_of(questionnaire),
   skill_fit |-> skill_fit_of(questionnaire)]

AxisNames ==
  {"purpose_clarity", "energy_chronotype", "focus_capacity", "habit_foundation",
   "mindset", "skill_fit"}

\* ProfileAxes(...): each field is validated with Field(ge=0, le=100)
ProfileAxes_valid(axes) == \A a \in AxisNames : axes[a] >= 0 /\ axes[a] <= S(100)

(***************************************************************************)
(* determine_archetype.                                                    *)
(***************************************************************************)

\* variant: strict comparison on purpose_clarity
determine_archetype_strict(axes) ==
  IF /\ axes.purpose_clarity > S(60)
     /\ axes.energy_chronotype >= S(70)
     /\ axes.focus_capacity >= S(60)
  THEN PURPOSE_DRIVEN_HIGH_ENERGY
  ELSE IF /\ axes.habit_foundation < S(40)
          /\ axes.energy_chronotype < S(60)
  THEN LOW_ENERGY_WANTS_CHANGE
  ELSE EXPLORATORY_MODERATE

\* variant: rule 2 reads energy_chronotype < 80
determine_archetype_wide(axes) ==
  IF /\ axes.purpose_clarity >= S(60)
     /\ axes.energy_chronotype >= S(70)
     /\ axes.focus_capacity >= S(60)
  THEN PURPOSE_DRIVEN_HIGH_ENERGY
  ELSE IF /\ axes.habit_foundation < S(40)
          /\ axes.energy_chronotype < S(80)
  THEN LOW_ENERGY_WANTS_CHANGE
  ELSE EXPLORATORY_MODERATE

determine_archetype(axes) ==
  IF /\ axes.purpose_clarity >= S(60)
     /\ axes.energy_chronotype >= S(70)
     /\ axes.focus_capacity >= S(60)
  THEN PURPOSE_DRIVEN_HIGH_ENERGY
  ELSE IF /\ axes.habit_foundation < S(40)
          /\ axes.energy_chronotype < S(60)
  THEN LOW_ENERGY_WANTS_CHANGE
  ELSE EXPLORATORY_MODERATE

(***************************************************************************)
(* generate_plan_template.  The result is [raises |-> TRUE] when the       *)
(* function raises (IndexError from split()[0]) and otherwise              *)
(* [raises |-> FALSE, plan |-> the PlanTemplate].  The arrows of           *)
(* daily_template are written "->".                                        *)
(***************************************************************************)
TimeBlock(time, duration, activity, type) ==
  [time |-> time, duration |-> duration, activity |-> activity, type |-> type]

HabitStack(name, cue, action, reward, tracking) ==
  [name |-> name, cue |-> cue, action |-> action, reward |-> reward,
   tracking |-> tracking]

yearly_goal_of(archetype, questionnaire) ==
  IF archetype = PURPOSE_DRIVEN_HIGH_ENERGY
  THEN "Achieve " \o questionnaire.outcome_1
         \o " through systematic skill building and focused execution"
  ELSE IF archetype = LOW_ENERGY_WANTS_CHANGE
  THEN "Build sustainable habits and gradually work toward " \o questionnaire.outcome_1
  ELSE "Explore and develop " \o questionnaire.outcome_1
         \o " through structured experimentation"


\* variant: the first pillar names the last skill (skills[-1])
pillars_of_last_skill(archetype, questionnaire) ==
  IF archetype = PURPOSE_DRIVEN_HIGH_ENERGY
  THEN <<"Master "
           \o (IF Len(questionnaire.skills) > 0
               THEN questionnaire.skills[Len(questionnaire.skills)]
               ELSE "core skills")
           \o " through daily practice",
         "Build sustainable systems around " \o questionnaire.key_habit_change,
         "Maintain high-energy routines and deep work blocks">>
  ELSE IF archetype = LOW_ENERGY_WANTS_CHANGE
  THEN <<"Establish micro-habits and daily wins",
         "Address " \o questionnaire.key_habit_change \o " with small steps",
         "Build energy and focus capacity over time">>
  ELSE <<"Monthly skill experiments and learning sprints",
         "Develop " \o questionnaire.key_habit_change \o " through habit stacking",
         "Build consistent review and iteration cycles">>

pillars_of(archetype, questionnaire) ==
  IF archetype = PURPOSE_DRIVEN_HIGH_ENERGY
  THEN <<"Master "
           \o (IF Len(questionnaire.skills) > 0 THEN questionnaire.skills[1]
               ELSE "core skills")
           \o " through daily practice",
         "Build sustainable systems around " \o questionnaire.key_habit_change,
         "Maintain high-energy routines and deep work blocks">>
  ELSE IF archetype = LOW_ENERGY_WANTS_CHANGE
  THEN <<"Establish micro-habits and daily wins",
         "Address " \o questionnaire.key_habit_change \o " with small steps",
         "Build energy and focus capacity over time">>
  ELSE <<"Monthly skill experiments and learning sprints",
         "Develop " \o questionnaire.key_habit_change \o " through habit stacking",
         "Build consistent review and iteration cycles">>

time_blocks_of(archetype) ==
  IF archetype = PURPOSE_DRIVEN_HIGH_ENERGY
  THEN <<TimeBlock("05:30", 30, "Morning routine + planning", "routine"),
         TimeBlock("06:00", 90, "Deep work block 1", "deep_work"),
         TimeBlock("18:00", 60, "Skill practice", "practice")>>
  ELSE IF archetype = LOW_ENERGY_WANTS_CHANGE
  THEN <<TimeBlock("07:00", 15, "Simple morning routine", "routine"),
         TimeBlock("19:30", 30, "Micro-practice session", "practice")>>
  ELSE <<TimeBlock("06:30", 45, "Morning routine + planning", "routine"),
         TimeBlock("19:00", 45, "Learning and practice", "practice")>>


\* variant: the cue needs more than 2 time blocks (len(time_blocks) > 2)
habit_stack_of_three_blocks(questionnaire, time_blocks) ==
  <<HabitStack("Morning Startup", "After waking up", "Drink water + 5-minute planning",
               "Favorite morning beverage", "Daily checkbox"),
    HabitStack(split(questionnaire.key_habit_change)[1] \o " Practice",
               "After " \o (IF Len(time_blocks) > 2 THEN time_blocks[2].activity
                            ELSE "dinner"),
               "10 minutes of " \o questionnaire.key_habit_change,
               "Track progress + celebration",
               "Weekly streak counter")>>

\* the list literal of lines 308-323; split()[0] must exist for it to be built
habit_stack_of(questionnaire, time_blocks) ==
  <<HabitStack("Morning Startup", "After waking up", "Drink water + 5-minute planning",
               "Favorite morning beverage", "Daily checkbox"),
    HabitStack(split(questionnaire.key_habit_change)[1] \o " Practice",
               "After " \o (IF Len(time_blocks) > 1 THEN time_blocks[2].activity
                            ELSE "dinner"),
               "10 minutes of " \o questionnaire.key_habit_change,
               "Track progress + celebration",
               "Weekly streak counter")>>

justification_of(archetype, axes) ==
  archetype \o " approach based on " \o format_0f(axes.purpose_clarity)
    \o "% purpose clarity and " \o format_0f(axes.energy_chronotype)
    \o "% energy score"

\* questionnaire.key_habit_change.split()[0] raises IndexError on an empty list
first_token_raises(questionnaire) == Len(split(questionnaire.key_habit_change)) = 0

generate_plan_template(profile) ==
  LET archetype == profile.archetype
      questionnaire == profile.questionnaire
      axes == profile.axes
      time_blocks == time_blocks_of(archetype)
  IN IF first_token_raises(questionnaire)
     THEN [raises |-> TRUE]
     ELSE [raises |-> FALSE,
           plan |->
             [yearly_goal |-> yearly_goal_of(archetype, questionnaire),
              pillars |-> pillars_of(archetype, questionnaire),
              monthly_template |->
                "Monthly theme focus with weekly milestones and habit tracking",
              weekly_template |->
                "Weekly planning with 2-3 focus sessions and daily micro-habits",
              daily_template |->
                "Morning routine -> Deep work/practice -> Evening reflection",
              habit_stack |-> habit_stack_of(questionnaire, time_blocks),
              suggested_time_blocks |-> time_blocks,
              justification |-> justification_of(archetype, axes)]]

(***************************************************************************)
(* Inputs.  TestQuestionnaire is the request body of the repository's own  *)
(* test; the other questionnaires vary the fields one axis reads.          *)
(***************************************************************************)
TestQuestionnaire ==
  [energizing_activities |->
     "coding and design work, solving complex problems, building user interfaces",
   passionate_problems |->
     "help students learn programming more effectively and create better educational tools",
   skills |-> <<"Programming/Coding", "Design", "Teaching">>,
   weekday_hours |-> 6,
   weekend_hours |-> 8,
   chronotype |-> "Early morning",
   morning_routine |->
     "Wake up at 5:30, drink water, 10 minutes meditation, review daily goals",
   morning_routine_duration |-> <<30>>,
   habit_count |-> "3-4",
   setback_reaction |-> "learn and iterate immediately",
   outcome_1 |-> "Launch a successful coding bootcamp for beginners",
   outcome_2 |-> "Build and monetize 3 educational web applications",
   outcome_3 |-> "Establish a consistent content creation routine",
   key_habit_change |-> "consistent daily coding practice and content creation",
   distractions |-> <<"Social media", "Notifications", "Email">>,
   commitment_level |-> 9]

\* a short questionnaire that scores low on every axis
PlainQuestionnaire ==
  [energizing_activities |-> "walking",
   passionate_problems |-> "none",
   skills |-> <<>>,
   weekday_hours |-> 0,
   weekend_hours |-> 0,
   chronotype |-> "Night",
   morning_routine |-> "",
   morning_routine_duration |-> None,
   habit_count |-> "0",
   setback_reaction |-> "give up",
   outcome_1 |-> "Sleep more",
   outcome_2 |-> "",
   outcome_3 |-> "",
   key_habit_change |-> "sleep",
   distractions |-> <<>>,
   commitment_level |-> 1]

\* hours a request may carry: weekday_hours and weekend_hours are unconstrained floats
Hours == {-MaxHours} \cup 0..MaxHours

Durations == {None, <<-300>>, <<0>>, <<1>>, <<39>>, <<40>>, <<41>>}

RoutineTexts == {"", "  ", " Stretch and tea "}

PassionTexts ==
  {"", "none", "I want to help and build tools", "help help help HELP",
   "Rebuild, unhelpful", "create build help solve improve teach mentor impact"}

OutcomeTexts == {"", "Ship it", "Run a  marathon\tin spring"}

ActivityTexts ==
  {"", "Coding, DESIGN and writing", "creative reading",
   "coding design writing research analysis problem create"}

HabitTexts == {"", "   ", "sleep", "read daily", "  walk daily!  ", "sleep earlier"}

SkillLists ==
  {<<>>, <<"Design">>, <<"Public Speaking">>, <<"run fast", "marathon run", "chess">>,
   <<"Programming/Coding", "Design", "Teaching">>, <<"ship", "run", "spring", "it">>,
   <<"SHIP It", "", "Chess">>}

DistractionList(n) == [i \in 1..n |-> "Email"]

PurposeInputs ==
  {[PlainQuestionnaire EXCEPT !.passionate_problems = p, !.outcome_1 = o1,
                              !.outcome_2 = o2, !.outcome_3 = o3] :
     p \in PassionTexts, o1 \in OutcomeTexts, o2 \in OutcomeTexts, o3 \in OutcomeTexts}

EnergyInputs ==
  {[PlainQuestionnaire EXCEPT !.chronotype = c, !.morning_routine = r,
                              !.morning_routine_duration = d,
                              !.weekday_hours = w, !.weekend_hours = e] :
     c \in ChronotypeChoice, r \in RoutineTexts, d \in Durations,
     w \in Hours, e \in Hours}

FocusInputs ==
  {[PlainQuestionnaire EXCEPT !.energizing_activities = a, !.weekday_hours = w,
                              !.weekend_hours = e, !.distractions = DistractionList(n)] :
     a \in ActivityTexts, w \in Hours, e \in {0, MaxHours}, n \in 0..MaxDistractions}

HabitInputs ==
  {[PlainQuestionnaire EXCEPT !.habit_count = h, !.key_habit_change = k] :
     h \in HabitCount, k \in HabitTexts}

MindsetInputs ==
  {[PlainQuestionnaire EXCEPT !.setback_reaction = s, !.commitment_level = c] :
     s \in SetbackReaction, c \in 1..10}

SkillInputs ==
  {[PlainQuestionnaire EXCEPT !.skills = s, !.outcome_1 = o1, !.outcome_3 = o3] :
     s \in SkillLists, o1 \in OutcomeTexts, o3 \in OutcomeTexts}

Questionnaires ==
  {TestQuestionnaire} \cup PurposeInputs \cup EnergyInputs \cup FocusInputs
    \cup HabitInputs \cup MindsetInputs \cup SkillInputs

\* axis values around the thresholds of determine_archetype, in units of 1/Scale
AxisValues(thresholds) ==
  {0, S(100)} \cup UNION {{S(x) - 1, S(x), S(x) + 1} : x \in thresholds}

AxesGrid ==
  [purpose_clarity : AxisValues({60}), energy_chronotype : AxisValues({60, 70}),
   focus_capacity : AxisValues({60}), habit_foundation : AxisValues({40}),
   mindset : {0, S(100)}, skill_fit : {0, S(100)}]

(***************************************************************************)
(* The three pure functions, each applied to an input drawn in Init.       *)
(***************************************************************************)
NoStore ==
  /\ user_profiles = <<>>
  /\ user_plans = <<>>
  /\ response = [request |-> <<>>, status |-> 0, body |-> <<>>]
  /\ uuids = 0
  /\ clock = 0

InitAxes ==
  /\ NoStore
  /\ fn_arg \in Questionnaires
  /\ fn_ret = <<>>
  /\ pc = "call"

ScoreAxes ==
  /\ pc = "call"
  /\ fn_ret' = calculate_profile_axes(fn_arg)
  /\ pc' = "return"
  /\ UNCHANGED <<user_profiles, user_plans, response, uuids, clock, fn_arg>>

SpecAxes == InitAxes /\ [][ScoreAxes]_vars

InitArchetype ==
  /\ NoStore
  /\ fn_arg \in AxesGrid
  /\ fn_ret = <<>>
  /\ pc = "call"

Classify ==
  /\ pc = "call"
  /\ fn_ret' = determine_archetype(fn_arg)
  /\ pc' = "return"
  /\ UNCHANGED <<user_profiles, user_plans, response, uuids, clock, fn_arg>>

SpecArchetype == InitArchetype /\ [][Classify]_vars

(***************************************************************************)
(* Properties of calculate_profile_axes, under SpecAxes.                   *)
(***************************************************************************)
\* the questionnaires the axis range is stated for
ValidQuestionnaire(q) ==
  /\ q.chronotype \in ChronotypeChoice
  /\ q.habit_count \in HabitCount
  /\ q.setback_reaction \in SetbackReaction
  /\ q.weekday_hours >= 0
  /\ q.weekend_hours >= 0
  /\ q.morning_routine_duration = None \/ q.morning_routine_duration[1] >= 0
  /\ q.commitment_level \in 1..10

\* C1: for every valid questionnaire each of the six axes returned by
\* calculate_profile_axes lies in [0, 100].
C1_AxesInRange ==
  (pc = "return" /\ ValidQuestionnaire(fn_arg)) =>
    /\ 0 <= fn_ret.purpose_clarity /\ fn_ret.purpose_clarity <= 100 * Scale
    /\ 0 <= fn_ret.energy_chronotype /\ fn_ret.energy_chronotype <= 100 * Scale
    /\ 0 <= fn_ret.focus_capacity /\ fn_ret.focus_capacity <= 100 * Scale
    /\ 0 <= fn_ret.habit_foundation /\ fn_ret.habit_foundation <= 100 * Scale
    /\ 0 <= fn_ret.mindset /\ fn_ret.mindset <= 100 * Scale
    /\ 0 <= fn_ret.skill_fit /\ fn_ret.skill_fit <= 100 * Scale

\* a valid questionnaire whose distraction penalty exceeds the positive focus terms
C1_Witness ==
  /\ pc = "return"
  /\ ValidQuestionnaire(fn_arg)
  /\ fn_arg.weekday_hours > 0
  /\ Len(fn_arg.distractions) * 5 > 40
  /\ fn_ret.focus_capacity = 0

\* C9: energy_chronotype = min(100, base + routine_bonus + time_bonus), the caps 20
\* and 30 applied to the components and the clamp to the sum; Early morning with no
\* routine and 8 + 8 hours gives 100.
C9_EnergyFormula ==
  pc = "return" =>
    LET q == fn_arg
        base == CASE q.chronotype = "Early morning" -> 90
                  [] q.chronotype = "Late morning" -> 70
                  [] q.chronotype = "Afternoon" -> 60
                  [] q.chronotype = "Evening" -> 50
                  [] q.chronotype = "Night" -> 30
        \* 14 * min(20, duration / 2)
        routine_bonus ==
          IF Len(strip(q.morning_routine)) > 0 /\ q.morning_routine_duration # None
          THEN Min(14 * 20, 7 * q.morning_routine_duration[1])
          ELSE 0
        \* 14 * min(30, 5 * (5 * weekday_hours + 2 * weekend_hours) / 7)
        time_bonus == Min(14 * 30, 10 * (5 * q.weekday_hours + 2 * q.weekend_hours))
    IN /\ fn_ret.energy_chronotype = Min(14 * 100, 14 * base + routine_bonus + time_bonus)
       /\ (/\ q.chronotype = "Early morning"
           /\ q.morning_routine = ""
           /\ q.weekday_hours = 8
           /\ q.weekend_hours = 8) => fn_ret.energy_chronotype = 14 * 100

\* Scenario A: the time bonus is capped at 30 and the sum clamped to 100
C9_Witness ==
  /\ pc = "return"
  /\ fn_arg.chronotype = "Early morning"
  /\ fn_arg.morning_routine = ""
  /\ fn_arg.weekday_hours = 8
  /\ fn_arg.weekend_hours = 8
  /\ fn_ret.energy_chronotype = 14 * 100

\* C10: purpose_clarity = min(100, 20 * K + 15 * S), K the number of distinct
\* keywords occurring in passionate_problems and S the number of outcome statements
\* of more than 3 words; a repeated keyword counts once.
C10_PurposeFormula ==
  pc = "return" =>
    LET q == fn_arg
        text == lower(q.passionate_problems)
        K == Cardinality({k \in {"create", "build", "help", "solve", "improve", "teach",
                                 "mentor", "impact"} : contains(text, k)})
        Sn == Cardinality({o \in {1, 2, 3} : Len(split(outcomes_of(q)[o])) > 3})
    IN /\ fn_ret.purpose_clarity = Scale * Min(100, 20 * K + 15 * Sn)
       /\ q.passionate_problems = "help help help HELP" =>
            fn_ret.purpose_clarity = Scale * (20 + 15 * Sn)

\* one keyword four times, no outcome of more than 3 words: 20
C10_Witness ==
  /\ pc = "return"
  /\ fn_arg.passionate_problems = "help help help HELP"
  /\ fn_arg.outcome_1 = "Ship it"
  /\ fn_arg.outcome_2 = ""
  /\ fn_arg.outcome_3 = ""
  /\ fn_ret.purpose_clarity = Scale * 20

(***************************************************************************)
(* Properties of determine_archetype, under SpecArchetype.                 *)
(***************************************************************************)
Rule1Thresholds(axes) ==
  /\ axes.purpose_clarity >= 60 * Scale
  /\ axes.energy_chronotype >= 70 * Scale
  /\ axes.focus_capacity >= 60 * Scale

Rule2Thresholds(axes) ==
  /\ axes.habit_foundation < 40 * Scale
  /\ axes.energy_chronotype < 60 * Scale

\* C2: determine_archetype returns exactly one archetype by the ordered rule:
\* rule 1, otherwise rule 2, otherwise EXPLORATORY_MODERATE.
C2_OrderedRule ==
  pc = "return" =>
    /\ fn_ret \in Archetype
    /\ Rule1Thresholds(fn_arg) => fn_ret = PURPOSE_DRIVEN_HIGH_ENERGY
    /\ (~Rule1Thresholds(fn_arg) /\ Rule2Thresholds(fn_arg)) =>
         fn_ret = LOW_ENERGY_WANTS_CHANGE
    /\ (~Rule1Thresholds(fn_arg) /\ ~Rule2Thresholds(fn_arg)) =>
         fn_ret = EXPLORATORY_MODERATE

\* each of the three results is returned, the first at its exact thresholds
C2_Witness ==
  /\ pc = "return"
  /\ fn_arg.purpose_clarity = 60 * Scale
  /\ fn_arg.energy_chronotype = 70 * Scale
  /\ fn_arg.focus_capacity = 60 * Scale
  /\ fn_ret = PURPOSE_DRIVEN_HIGH_ENERGY

\* C3 as stated: some axes value satisfies the thresholds of rule 1 and of rule 2,
\* and determine_archetype returns PURPOSE_DRIVEN_HIGH_ENERGY for it (the value is
\* looked for among the grid and the value being classified).
C3_RulesOverlap ==
  \E axes \in AxesGrid \cup {fn_arg} :
    /\ Rule1Thresholds(axes)
    /\ Rule2Thresholds(axes)
    /\ determine_archetype(axes) = PURPOSE_DRIVEN_HIGH_ENERGY

\* C3 amended: no axes value satisfies the thresholds of both rules, and evaluating
\* rule 2 before rule 1 gives the result determine_archetype gives.
C3_RulesExclusive ==
  pc = "return" =>
    /\ ~(Rule1Thresholds(fn_arg) /\ Rule2Thresholds(fn_arg))
    /\ fn_ret = (IF Rule2Thresholds(fn_arg) THEN LOW_ENERGY_WANTS_CHANGE
                 ELSE IF Rule1Thresholds(fn_arg) THEN PURPOSE_DRIVEN_HIGH_ENERGY
                 ELSE EXPLORATORY_MODERATE)

\* rule 1 holds together with the habit half of rule 2: only energy separates them
C3_Witness ==
  /\ pc = "return"
  /\ Rule1Thresholds(fn_arg)
  /\ fn_arg.habit_foundation < 40 * Scale
  /\ fn_ret = PURPOSE_DRIVEN_HIGH_ENERGY

(***************************************************************************)
(* generate_plan_template applied to profiles built as submit_questionnaire*)
(* builds them.                                                            *)
(***************************************************************************)
\* UserProfile(questionnaire=..., axes=..., archetype=...) of submit_questionnaire
UserProfile(id, questionnaire, created_at) ==
  LET axes == calculate_profile_axes(questionnaire)
  IN [id |-> id, questionnaire |-> questionnaire, axes |-> axes,
      archetype |-> determine_archetype(axes), created_at |-> created_at]

ExploratoryQuestionnaire ==
  [PlainQuestionnaire EXCEPT !.chronotype = "Afternoon", !.habit_count = "3-4"]

TemplateHabitTexts ==
  {"", "   ", "sleep", "sleep earlier", "Design thinking",
   "consistent daily coding practice and content creation"}

TemplateSkillLists == {<<>>, <<"Design">>, <<"Programming/Coding", "Design", "Teaching">>}

TemplateInputs ==
  {[base EXCEPT !.skills = s, !.key_habit_change = k, !.outcome_1 = o] :
     base \in {TestQuestionnaire, PlainQuestionnaire, ExploratoryQuestionnaire},
     s \in TemplateSkillLists, k \in TemplateHabitTexts,
     o \in {"Ship it", "Launch a successful coding bootcamp for beginners"}}

InitTemplate ==
  /\ NoStore
  /\ fn_arg \in {UserProfile(1, q, 0) : q \in TemplateInputs}
  /\ fn_ret = <<>>
  /\ pc = "call"

BuildTemplate ==
  /\ pc = "call"
  /\ fn_ret' = generate_plan_template(fn_arg)
  /\ pc' = "return"
  /\ UNCHANGED <<user_profiles, user_plans, response, uuids, clock, fn_arg>>

SpecTemplate == InitTemplate /\ [][BuildTemplate]_vars

(***************************************************************************)
(* The request handlers.  user_profiles and user_plans are the two         *)
(* collections in insertion order; uuids counts the ids handed out by      *)
(* uuid4 (the n-th id is n) and clock is datetime.now.  The database calls *)
(* are taken to succeed; MaxProfiles and MaxPlans bound the collections.   *)
(***************************************************************************)
\* datetime.isoformat(): the stored text of a timestamp (its decimal digits)
isoformat(created_at) == str(created_at)

RECURSIVE fromisoformat(_)
fromisoformat(text) ==
  IF Len(text) = 0 THEN 0
  ELSE 10 * fromisoformat(SubSeq(text, 1, Len(text) - 1))
         + (CHOOSE d \in 0..9 : Digit(d) = CharAt(text, Len(text)))

\* collection.find_one({key: value}): the first matching document, or None
find_one(collection, key, value) ==
  LET hits == {i \in 1..Len(collection) : collection[i][key] = value}
  IN IF hits = {} THEN None
     ELSE collection[CHOOSE i \in hits : \A j \in hits : i <= j]

HTTPException(request, status_code, detail) ==
  [request |-> request, status |-> status_code, body |-> [detail |-> detail]]

\* ids a request path may carry: 0 is never handed out by uuid4
IdSpace == 0..(MaxProfiles + MaxPlans)

InvalidQuestionnaire ==
  [PlainQuestionnaire EXCEPT !.weekday_hours = -MaxHours, !.weekend_hours = -MaxHours]

ApiInputs ==
  {TestQuestionnaire,
   [PlainQuestionnaire EXCEPT !.key_habit_change = "   "],
   [ExploratoryQuestionnaire EXCEPT !.key_habit_change = "sleep earlier"],
   InvalidQuestionnaire}

Init ==
  /\ user_profiles = <<>>
  /\ user_plans = <<>>
  /\ response = [request |-> <<>>, status |-> 0, body |-> <<>>]
  /\ uuids = 0
  /\ clock = 0
  /\ fn_arg = <<>>
  /\ fn_ret = <<>>
  /\ pc = "serve"

root ==
  /\ response' = [request |-> <<"GET /">>, status |-> 200,
                  body |-> [message |-> "Agentic AI Productivity Coach API"]]
  /\ UNCHANGED <<user_profiles, user_plans, uuids, clock, fn_arg, fn_ret, pc>>

submit_questionnaire(questionnaire) ==
  LET request == <<"POST /questionnaire", questionnaire>>
      axes == calculate_profile_axes(questionnaire)
      profile == UserProfile(uuids + 1, questionnaire, clock + 1)
      profile_dict == [profile EXCEPT !.created_at = isoformat(@)]
  IN /\ Len(user_profiles) < MaxProfiles
     /\ IF ~ProfileAxes_valid(axes)
        THEN /\ response' = HTTPException(request, 500, "Error processing questionnaire")
             /\ UNCHANGED <<user_profiles, uuids, clock>>
        ELSE /\ user_profiles' = Append(user_profiles, profile_dict)
             /\ uuids' = uuids + 1
             /\ clock' = clock + 1
             /\ response' = [request |-> request, status |-> 200, body |-> profile]
     /\ UNCHANGED <<user_plans, fn_arg, fn_ret, pc>>

get_profile(profile_id) ==
  LET request == <<"GET /profile", profile_id>>
      profile_data == find_one(user_profiles, "id", profile_id)
  IN /\ IF profile_data = None
        THEN response' = HTTPException(request, 404, "Profile not found")
        ELSE response' =
               [request |-> request, status |-> 200,
                body |-> [profile_data EXCEPT !.created_at = fromisoformat(@)]]
     /\ UNCHANGED <<user_profiles, user_plans, uuids, clock, fn_arg, fn_ret, pc>>


\* variant: the plan is stored under its own id (profile_id=user_plan id)
generate_plan_own_id(profile_id) ==
  LET request == <<"POST /plan", profile_id>>
      profile_data == find_one(user_profiles, "id", profile_id)
      profile == [profile_data EXCEPT !.created_at = fromisoformat(@)]
      plan_template == generate_plan_template(profile)
      user_plan == [id |-> uuids + 1, profile_id |-> uuids + 1,
                    plan |-> plan_template.plan, created_at |-> clock + 1]
      plan_dict == [user_plan EXCEPT !.created_at = isoformat(@)]
  IN /\ Len(user_plans) < MaxPlans
     /\ IF profile_data = None
        THEN /\ response' = HTTPException(request, 404, "Profile not found")
             /\ UNCHANGED <<user_plans, uuids, clock>>
        ELSE IF plan_template.raises
        THEN /\ response' = HTTPException(request, 500, "Error generating plan")
             /\ UNCHANGED <<user_plans, uuids, clock>>
        ELSE /\ user_plans' = Append(user_plans, plan_dict)
             /\ uuids' = uuids + 1
             /\ clock' = clock + 1
             /\ response' = [request |-> request, status |-> 200, body |-> user_plan]
     /\ UNCHANGED <<user_profiles, fn_arg, fn_ret, pc>>

generate_plan(profile_id) ==
  LET request == <<"POST /plan", profile_id>>
      profile_data == find_one(user_profiles, "id", profile_id)
      profile == [profile_data EXCEPT !.created_at = fromisoformat(@)]
      plan_template == generate_plan_template(profile)
      user_plan == [id |-> uuids + 1, profile_id |-> profile_id,
                    plan |-> plan_template.plan, created_at |-> clock + 1]
      plan_dict == [user_plan EXCEPT !.created_at = isoformat(@)]
  IN /\ Len(user_plans) < MaxPlans
     /\ IF profile_data = None
        THEN /\ response' = HTTPException(request, 404, "Profile not found")
             /\ UNCHANGED <<user_plans, uuids, clock>>
        ELSE IF plan_template.raises
        THEN /\ response' = HTTPException(request, 500, "Error generating plan")
             /\ UNCHANGED <<user_plans, uuids, clock>>
        ELSE /\ user_plans' = Append(user_plans, plan_dict)
             /\ uuids' = uuids + 1
             /\ clock' = clock + 1
             /\ response' = [request |-> request, status |-> 200, body |-> user_plan]
     /\ UNCHANGED <<user_profiles, fn_arg, fn_ret, pc>>


\* variant: the plan is looked up by its own id
get_plan_by_plan_id(profile_id) ==
  LET request == <<"GET /plan", profile_id>>
      plan_data == find_one(user_plans, "id", profile_id)
  IN /\ IF plan_data = None
        THEN response' = HTTPException(request, 404, "Plan not found")
        ELSE response' =
               [request |-> request, status |-> 200,
                body |-> [plan_data EXCEPT !.created_at = fromisoformat(@)]]
     /\ UNCHANGED <<user_profiles, user_plans, uuids, clock, fn_arg, fn_ret, pc>>

get_plan(profile_id) ==
  LET request == <<"GET /plan", profile_id>>
      plan_data == find_one(user_plans, "profile_id", profile_id)
  IN /\ IF plan_data = None
        THEN response' = HTTPException(request, 404, "Plan not found")
        ELSE response' =
               [request |-> request, status |-> 200,
                body |-> [plan_data EXCEPT !.created_at = fromisoformat(@)]]
     /\ UNCHANGED <<user_profiles, user_plans, uuids, clock, fn_arg, fn_ret, pc>>

Next ==
  \/ root
  \/ \E questionnaire \in ApiInputs : submit_questionnaire(questionnaire)
  \/ \E profile_id \in IdSpace : get_profile(profile_id)
  \/ \E profile_id \in IdSpace : generate_plan(profile_id)
  \/ \E profile_id \in IdSpace : get_plan(profile_id)

Spec == Init /\ [][Next]_vars

(***************************************************************************)
(* Properties of generate_plan_template, under SpecTemplate.               *)
(***************************************************************************)
\* C5: for every archetype and every valid questionnaire, an empty
\* key_habit_change and an empty skills list included, the habit_stack of the plan
\* built has exactly 2 entries, the first the constant "Morning Startup" entry.
C5_HabitStackTwoEntries ==
  pc = "return" =>
    /\ ~fn_ret.raises
    /\ Len(fn_ret.plan.habit_stack) = 2
    /\ fn_ret.plan.habit_stack[1] =
         [name |-> "Morning Startup", cue |-> "After waking up",
          action |-> "Drink water + 5-minute planning",
          reward |-> "Favorite morning beverage", tracking |-> "Daily checkbox"]

\* C6: for each archetype the plan built has exactly 3 pillars; only the
\* PURPOSE_DRIVEN_HIGH_ENERGY template names a skill, the first of skills, or
\* "core skills" when skills is empty.
C6_ThreePillars ==
  (pc = "return" /\ ~fn_ret.raises) =>
    LET pillars == fn_ret.plan.pillars
        skills == fn_arg.questionnaire.skills
        habit == fn_arg.questionnaire.key_habit_change
    IN /\ fn_arg.archetype \in Archetype
       /\ Len(pillars) = 3
       /\ fn_arg.archetype = PURPOSE_DRIVEN_HIGH_ENERGY =>
            pillars[1] = "Master "
                           \o (IF skills = <<>> THEN "core skills" ELSE skills[1])
                           \o " through daily practice"
       /\ fn_arg.archetype # PURPOSE_DRIVEN_HIGH_ENERGY =>
            \A i \in 1..3 :
              /\ ~contains(pillars[i], "core skills")
              /\ (skills # <<>> /\ ~contains(habit, skills[1])) =>
                   ~contains(pillars[i], skills[1])

\* the fallback literal in the high-energy template
C6_Witness ==
  /\ pc = "return"
  /\ ~fn_ret.raises
  /\ fn_arg.archetype = PURPOSE_DRIVEN_HIGH_ENERGY
  /\ fn_arg.questionnaire.skills = <<>>
  /\ fn_ret.plan.pillars[1] = "Master core skills through daily practice"
  /\ Len(fn_ret.plan.pillars) = 3

(***************************************************************************)
(* Properties of the request handlers, under Spec.                         *)
(***************************************************************************)
RequestIs(r, kind) == Len(r.request) > 0 /\ r.request[1] = kind

StoredProfile(profile_id) ==
  \E i \in 1..Len(user_profiles) : user_profiles[i].id = profile_id

StoredPlanOf(profile_id) ==
  \E i \in 1..Len(user_plans) : user_plans[i].profile_id = profile_id

BlankHabit(profile_id) ==
  \E i \in 1..Len(user_profiles) :
    /\ user_profiles[i].id = profile_id
    /\ \A c \in 1..Len(user_profiles[i].questionnaire.key_habit_change) :
         CharAt(user_profiles[i].questionnaire.key_habit_change, c) \in {" ", "\t", "\n"}

\* C4: when key_habit_change is empty or whitespace-only, the plan-generation
\* request for the stored profile succeeds and stores a plan whose second
\* habit-stack entry is named from a fallback token.
C4_BlankHabitPlanStored ==
  (RequestIs(response, "POST /plan") /\ BlankHabit(response.request[2])) =>
    /\ response.status = 200
    /\ \E i \in 1..Len(user_plans) :
         /\ user_plans[i].id = response.body.id
         /\ user_plans[i].profile_id = response.request[2]
         /\ Len(user_plans[i].plan.habit_stack) = 2
         /\ Len(user_plans[i].plan.habit_stack[2].name) > Len(" Practice")

\* C7: a lookup by an id that matches no stored record ends in 404 and changes
\* nothing stored: GET profile and POST plan for an id of no stored profile, GET plan
\* for a profile id with no stored plan.
C7_NotFound ==
  [][LET request == response'.request
     IN /\ (/\ request[1] \in {"GET /profile", "POST /plan"}
            /\ ~StoredProfile(request[2])) =>
              /\ response'.status = 404
              /\ user_profiles' = user_profiles
              /\ user_plans' = user_plans
        /\ (/\ request[1] = "GET /plan"
            /\ ~StoredPlanOf(request[2])) =>
              /\ response'.status = 404
              /\ user_profiles' = user_profiles
              /\ user_plans' = user_plans]_vars

\* POST plan answered 404 although profiles and plans are stored
C7_Witness ==
  /\ RequestIs(response, "POST /plan")
  /\ response.status = 404
  /\ ~StoredProfile(response.request[2])
  /\ StoredPlanOf(1)
  /\ user_plans[1].id = response.request[2]

\* C8: each generation request for a stored profile inserts exactly one new UserPlan
\* carrying that profile's id, also when a plan for it exists, and leaves every
\* stored profile and earlier plan unchanged; no operation mutates or deletes a
\* stored profile or plan.
C8_EachGenerationInserts ==
  [][/\ Len(user_profiles') >= Len(user_profiles)
     /\ SubSeq(user_profiles', 1, Len(user_profiles)) = user_profiles
     /\ Len(user_plans') >= Len(user_plans)
     /\ SubSeq(user_plans', 1, Len(user_plans)) = user_plans
     /\ (/\ response'.request[1] = "POST /plan"
         /\ StoredProfile(response'.request[2])) =>
           /\ user_profiles' = user_profiles
           /\ Len(user_plans') = Len(user_plans) + 1
           /\ user_plans'[Len(user_plans')].profile_id = response'.request[2]
           /\ \A i \in 1..Len(user_plans) :
                user_plans'[Len(user_plans')].id # user_plans[i].id]_vars

(***************************************************************************)
(* Further properties of calculate_profile_axes, under SpecAxes.           *)
(***************************************************************************)
\* C11: focus_capacity = max(0, min(100, 15 * F + min(40, 8 * average_hours) - 5 * D)),
\* F the number of distinct focus keywords in energizing_activities and D the number
\* of distractions; the subtraction is uncapped and the result is 0 whenever 5 * D
\* is at least the sum of the two positive terms.
C11_FocusFormula ==
  pc = "return" =>
    LET q == fn_arg
        text == lower(q.energizing_activities)
        F == Cardinality({k \in {"coding", "design", "writing", "research", "analysis",
                                 "problem", "create"} : contains(text, k)})
        D == Len(q.distractions)
        \* 7 * min(40, 8 * (5 * weekday_hours + 2 * weekend_hours) / 7)
        hours7 == Min(7 * 40, 8 * (5 * q.weekday_hours + 2 * q.weekend_hours))
        total7 == 7 * 15 * F + hours7 - 7 * 5 * D
    IN /\ 7 * fn_ret.focus_capacity = Scale * Max(0, Min(7 * 100, total7))
       /\ 7 * 5 * D >= 7 * 15 * F + hours7 => fn_ret.focus_capacity = 0
       /\ fn_ret.focus_capacity >= 0

\* three keywords and some hours, outweighed by more than five distractions
C11_Witness ==
  /\ pc = "return"
  /\ fn_arg.energizing_activities = "Coding, DESIGN and writing"
  /\ fn_arg.weekday_hours = 1
  /\ fn_arg.weekend_hours = 0
  /\ Len(fn_arg.distractions) = 11
  /\ fn_ret.focus_capacity = 0

\* C12: skill_fit = min(100, min(60, 20 * n) + 15 * A), n the number of skills and A
\* the number of skills with at least one word occurring, case-insensitively and as a
\* substring, in the joined outcome statements; a skill adds 15 at most once and an
\* empty skills list gives 0.
C12_SkillFitFormula ==
  pc = "return" =>
    LET q == fn_arg
        n == Len(q.skills)
        text == lower(q.outcome_1 \o " " \o q.outcome_2 \o " " \o q.outcome_3)
        A == Cardinality({i \in 1..n :
                            \E w \in 1..Len(split(q.skills[i])) :
                              contains(text, lower(split(q.skills[i])[w]))})
    IN /\ fn_ret.skill_fit = Scale * Min(100, Min(60, 20 * n) + 15 * A)
       /\ n = 0 => fn_ret.skill_fit = 0

\* three skills, two aligned, one of them by both of its words: 60 + 30
C12_Witness ==
  /\ pc = "return"
  /\ fn_arg.skills = <<"run fast", "marathon run", "chess">>
  /\ fn_arg.outcome_1 = "Run a  marathon\tin spring"
  /\ fn_arg.outcome_3 = ""
  /\ fn_ret.skill_fit = Scale * 90

(***************************************************************************)
(* Further properties of generate_plan_template, under SpecTemplate.       *)
(***************************************************************************)
\* C13: suggested_time_blocks has 3 entries for PURPOSE_DRIVEN_HIGH_ENERGY and 2 for
\* the other two archetypes, and the cue of the second habit-stack entry is "After "
\* followed by the activity of the second time block; "dinner" is never used.
C13_TimeBlocksAndCue ==
  (pc = "return" /\ ~fn_ret.raises) =>
    LET blocks == fn_ret.plan.suggested_time_blocks
        cue == fn_ret.plan.habit_stack[2].cue
    IN /\ fn_arg.archetype = PURPOSE_DRIVEN_HIGH_ENERGY => Len(blocks) = 3
       /\ fn_arg.archetype = LOW_ENERGY_WANTS_CHANGE => Len(blocks) = 2
       /\ fn_arg.archetype = EXPLORATORY_MODERATE => Len(blocks) = 2
       /\ Len(blocks) \in {2, 3}
       /\ cue = "After " \o blocks[2].activity
       /\ ~contains(cue, "dinner")

\* a two-block archetype: the cue still names the second block
C13_Witness ==
  /\ pc = "return"
  /\ ~fn_ret.raises
  /\ fn_arg.archetype = LOW_ENERGY_WANTS_CHANGE
  /\ Len(fn_ret.plan.suggested_time_blocks) = 2
  /\ fn_ret.plan.habit_stack[2].cue = "After Micro-practice session"

(***************************************************************************)
(* Further properties of the request handlers, under Spec.                 *)
(***************************************************************************)
\* the timestamp a stored document carries, read back from its stored text
CreatedAt(document) ==
  LET text == document.created_at
      value[n \in 0..Len(text)] ==
        IF n = 0 THEN 0
        ELSE 10 * value[n - 1]
               + (CHOOSE d \in 0..9 : SubSeq("0123456789", d + 1, d + 1) = SubSeq(text, n, n))
  IN value[Len(text)]

\* C14: every stored UserPlan's profile_id is the id of a stored UserProfile, and
\* that profile was stored before the plan was created.
C14_PlanHasOwningProfile ==
  \A i \in 1..Len(user_plans) :
    \E j \in 1..Len(user_profiles) :
      /\ user_profiles[j].id = user_plans[i].profile_id
      /\ CreatedAt(user_profiles[j]) < CreatedAt(user_plans[i])

\* two profiles stored, then two plans generated for the later one
C14_Witness ==
  /\ Len(user_profiles) = 2
  /\ Len(user_plans) = 2
  /\ user_plans[1].profile_id = user_profiles[2].id
  /\ user_plans[2].profile_id = user_profiles[2].id
  /\ user_plans[1].id # user_plans[2].id

====
